---- MODULE Spec2Model ----
(***************************************************************************)
(* A model of plugins/tenex-tasks/tenex_task.ts: the pipeline that reads a *)
(* transcript, lists the project directories, asks Ollama which project    *)
(* is meant, matches the answer against the directories, reads the         *)
(* project's .tenex.json, asks Ollama for a task and publishes it with     *)
(* nak.  One run of the script is one process; two processes may run in    *)
(* the same working directory and then share its files and the clock.      *)
(*                                                                         *)
(* Text is a sequence of one-character strings, so that toLowerCase,       *)
(* startsWith, split and trim are computed character by character.         *)
(***************************************************************************)
EXTENDS Naturals, Sequences, FiniteSets

(* ------------------------------ bounds -------------------------------- *)

\* Longest directory name; the raw answer of the project query may be one
\* character longer (its final line break).
MaxLen == 1

\* Most project directories in the workspace root.
MaxDirs == 2

\* Longest raw answer of the task query.
MaxTask == 3

\* Largest value of the millisecond clock.
MaxTime == 1

\* Longest name and answer, and most directories, when findProjectName's
\* matching is checked on its own.
ResLen == 2

ResDirs == 2

(* ------------------------------- text --------------------------------- *)

\* The characters of directory names: a letter in both cases and the
\* delimiter of the random suffix.
NameChars == {"A", "a", "-"}

\* The characters of a task text: a letter and the line break.
TaskChars == {"t", "\n"}

\* What String.prototype.trim removes at both ends.
WhiteSpace == {"\n"}

\* All texts over chars of at most n characters.
Strs(chars, n) == UNION {[1..k -> chars] : k \in 0..n}

\* String.prototype.toLowerCase, one character.
LowerChar(c) == IF c = "A" THEN "a" ELSE c

\* String.prototype.toLowerCase.
ToLowerCase(s) == [i \in 1..Len(s) |-> LowerChar(s[i])]

\* String.prototype.startsWith.
StartsWith(s, p) == Len(p) <= Len(s) /\ SubSeq(s, 1, Len(p)) = p

\* s.split('-')[0]: the text before the first '-', all of s when it has none.
SplitFirst(s, d) ==
    IF \E i \in 1..Len(s) : s[i] = d
    THEN LET i == CHOOSE i \in 1..Len(s) :
                      s[i] = d /\ \A j \in 1..(i - 1) : s[j] # d
         IN SubSeq(s, 1, i - 1)
    ELSE s

\* String.prototype.trim.
Trim(s) ==
    IF \A i \in 1..Len(s) : s[i] \in WhiteSpace
    THEN <<>>
    ELSE LET keep == {i \in 1..Len(s) : s[i] \notin WhiteSpace}
             lo == CHOOSE i \in keep : \A j \in keep : i <= j
             hi == CHOOSE i \in keep : \A j \in keep : j <= i
         IN SubSeq(s, lo, hi)

\* taskContent.split('\n')[0]: the first line.
FirstLine(s) == SplitFirst(s, "\n")

(* ---------------------------- the resolver ----------------------------- *)

\* JavaScript's undefined, as a text no program text equals.
Undefined == <<"undefined">>

\* The rules of the predicate handed to projectDirs.find.
RuleExact(dir, response) == dir = response

RuleNoCase(dir, response) == ToLowerCase(dir) = ToLowerCase(response)

RuleDirPrefix(dir, response) == StartsWith(dir, response)

RuleSegment(dir, response) == StartsWith(response, SplitFirst(dir, "-"))

\* The predicate handed to projectDirs.find: any of the four rules.
Matches(dir, response) ==
    \/ RuleExact(dir, response)
    \/ RuleNoCase(dir, response)
    \/ RuleDirPrefix(dir, response)
    \/ RuleSegment(dir, response)

\* No directory satisfies any of the four rules for the answer.
NoRule(dirs, response) ==
    \A i \in 1..Len(dirs) :
        /\ ~RuleExact(dirs[i], response)
        /\ ~RuleNoCase(dirs[i], response)
        /\ ~RuleDirPrefix(dirs[i], response)
        /\ ~RuleSegment(dirs[i], response)

\* FindDir as it would be with a default: the first directory when the
\* predicate accepts none.
FindDirOrFirst(dirs, response) ==
    IF \E i \in 1..Len(dirs) : Matches(dirs[i], response)
    THEN dirs[CHOOSE i \in 1..Len(dirs) :
                  /\ Matches(dirs[i], response)
                  /\ \A j \in 1..(i - 1) : ~Matches(dirs[j], response)]
    ELSE IF Len(dirs) > 0 THEN dirs[1] ELSE Undefined

\* Array.prototype.find: the first entry, in the array's order, that the
\* predicate accepts, undefined when there is none.
FindDir(dirs, response) ==
    IF \E i \in 1..Len(dirs) : Matches(dirs[i], response)
    THEN dirs[CHOOSE i \in 1..Len(dirs) :
                  /\ Matches(dirs[i], response)
                  /\ \A j \in 1..(i - 1) : ~Matches(dirs[j], response)]
    ELSE Undefined

\* `if (matchedDir)`: undefined and the empty string are falsy.
Truthy(v) == v # Undefined /\ v # <<>>


(* ------------------------------ inputs -------------------------------- *)

\* The processes that may run the script.
Procs == {1, 2}

\* Directory names: non-empty texts over the name characters.
Names(len) == Strs(NameChars, len) \ {<<>>}

\* What readdir can list: at most n directories, no name twice, any order.
Inventories(n, len) ==
    {dirs \in UNION {[1..k -> Names(len)] : k \in 0..n} :
        \A i, j \in 1..Len(dirs) : i # j => dirs[i] # dirs[j]}

\* Raw standard output of `ollama run` for the project query.
FindOutputs(len) == Strs(NameChars \cup WhiteSpace, len)

\* Raw standard output of `ollama run` for the task query.
TaskOutputs == Strs(TaskChars, MaxTask)

\* A value of a key of .tenex.json: missing, the empty string, or a text.
FieldValues == {Undefined, <<>>, <<"A">>}

\* What reading and parsing .tenex.json can give: an error (no file, no
\* JSON), the JSON value null, or an object with its nsec and eventId.
Configs ==
    [kind : {"error", "null"}, nsec : {Undefined}, eventId : {Undefined}]
        \cup [kind : {"object"}, nsec : FieldValues, eventId : FieldValues]

\* No .tenex.json was read yet.
NoConfig == [kind |-> "unread", nsec |-> Undefined, eventId |-> Undefined]

\* What readFileIfExists can return for SPEC.md and ARCHITECTURE.md.
DocTexts == {<<>>, <<"t">>}

\* The inputs of one run of the pipeline.
Env ==
    [dirs |-> Inventories(MaxDirs, MaxLen),
     findOut |-> FindOutputs(MaxLen + 1),
     taskOut |-> TaskOutputs,
     cfgs |-> Configs,
     docs |-> DocTexts]

\* The inputs of two runs side by side: one workspace, whose project is
\* named or not by the answer.
ConcEnv ==
    [dirs |-> {<<>>, << <<"A">> >>},
     findOut |-> {<<"A">>, <<"-">>},
     taskOut |-> {<<"t">>},
     cfgs |-> {c \in Configs : c.nsec = c.eventId},
     docs |-> {<<>>}]

(* ------------------------------- state -------------------------------- *)

VARIABLES
    root,         \* TENEX_PROJECTS_DIR: "ok", "unreadable" or "missing"
    now,          \* Date.now()
    files,        \* the temporary files present in process.cwd()
    pc,           \* where each process is, "off" when it was not started
    exitCode,     \* its exit status: {} while it runs, then {0} or {1}
    error,        \* the message it logged on its way out
    loc,          \* the local variables of its pipeline
    log,          \* the inventory reads, descriptor reads and external calls it made
    pending,      \* the temporary files it wrote and has not yet tried to unlink
    outstanding,  \* the external call it is waiting for
    genFailed,    \* whether an `ollama run` of it exited non-zero
    pubArgs,      \* what it handed to nak
    pubExit,      \* nak's exit status: {} until nak has exited
    listed,       \* whether its inventory was read, and was empty
    unmatched,    \* whether its answer satisfied no rule for any directory
    descriptor,   \* the .tenex.json it read
    descriptorOf, \* the project directory whose .tenex.json it read
    input         \* what it was started with: no argument, no file, a file

vars ==
    <<root, now, files, pc, exitCode, error, loc, log, pending,
      outstanding, genFailed, pubArgs, pubExit, listed, unmatched,
      descriptor, descriptorOf, input>>

NoPath == <<"none", 0>>

\* temp_prompt_${Date.now()}.txt
PromptPath(t) == <<"temp_prompt", t>>

\* temp_task.md
TaskPath == <<"temp_task", 0>>

NoArgs ==
    [nsec |-> Undefined, eventId |-> Undefined,
     taskTitle |-> Undefined, taskContent |-> Undefined]

\* The locals before anything is assigned.
NoLocals ==
    [projectDirs |-> <<>>,
     caller |-> "none",
     tempPromptPath |-> NoPath,
     response |-> Undefined,
     thrown |-> FALSE,
     projectDir |-> Undefined,
     nsec |-> Undefined,
     eventId |-> Undefined,
     specContent |-> Undefined,
     architectureContent |-> Undefined,
     contextInfo |-> <<>>,
     taskContent |-> Undefined,
     taskTitle |-> Undefined,
     tempFilePath |-> NoPath,
     published |-> FALSE]

Roots == {"ok", "unreadable", "missing"}

InitWith(started) ==
    /\ root \in Roots
    /\ now = 0
    /\ files = {}
    /\ pc = [p \in Procs |-> IF p \in started THEN "start" ELSE "off"]
    /\ exitCode = [p \in Procs |-> {}]
    /\ error = [p \in Procs |-> "none"]
    /\ loc = [p \in Procs |-> NoLocals]
    /\ log = [p \in Procs |-> <<>>]
    /\ pending = [p \in Procs |-> {}]
    /\ outstanding = [p \in Procs |-> "none"]
    /\ genFailed = [p \in Procs |-> FALSE]
    /\ pubArgs = [p \in Procs |-> NoArgs]
    /\ pubExit = [p \in Procs |-> {}]
    /\ listed = [p \in Procs |-> "unread"]
    /\ unmatched = [p \in Procs |-> FALSE]
    /\ descriptor = [p \in Procs |-> NoConfig]
    /\ descriptorOf = [p \in Procs |-> Undefined]
    /\ input = [p \in Procs |-> "unseen"]

Init == InitWith({1})

InitConc == InitWith({1, 2})


(* ------------------------------ leaving -------------------------------- *)

\* process.exit(1) after console.error(msg): the process and its locals
\* are gone; the files it left stay.
Exit(self, msg) ==
    /\ pc' = [pc EXCEPT ![self] = "exited"]
    /\ exitCode' = [exitCode EXCEPT ![self] = {1}]
    /\ error' = [error EXCEPT ![self] = msg]
    /\ loc' = [loc EXCEPT ![self] = NoLocals]

Goto(self, label) ==
    /\ pc' = [pc EXCEPT ![self] = label]
    /\ UNCHANGED <<exitCode, error>>

\* A step that assigns locals only.
Local(self, label, locals) ==
    /\ Goto(self, label)
    /\ loc' = [loc EXCEPT ![self] = locals]

(* --------------------------- script execution -------------------------- *)

\* The top level of the script: the usage check, then the call of
\* processTenexTask, which runs to its first await.
Start(self) ==
    /\ pc[self] = "start"
    /\ \E argc \in {2, 3} :
          /\ input' = [input EXCEPT ![self] = IF argc < 3 THEN "noarg" ELSE "arg"]
          /\ IF argc < 3
             THEN Exit(self, "Usage: bun tenex_task.ts <path_to_transcript_file>")
             ELSE Local(self, "readTranscript", loc[self])
    /\ UNCHANGED <<root, now, files, log, pending, outstanding, genFailed,
                   pubArgs, pubExit, listed, unmatched, descriptor,
                   descriptorOf>>

\* The un-awaited check of TENEX_PROJECTS_DIR: when fs.access rejects, its
\* handler ends the process wherever the pipeline stands.  When fs.access
\* resolves the handler does nothing.
RootCheckFail(self) ==
    /\ pc[self] \notin {"off", "start", "done", "exited"}
    /\ root = "missing"
    /\ Exit(self, "Directory does not exist or is not accessible")
    /\ outstanding' = [outstanding EXCEPT ![self] = "none"]
    /\ UNCHANGED <<root, now, files, log, pending, genFailed, pubArgs,
                   pubExit, listed, unmatched, descriptor, descriptorOf,
                   input>>

(* -------------------------- processTenexTask --------------------------- *)

\* ReadTranscript as it would be without the test of
\* transcriptFile.exists(): a missing transcript is taken as empty.
ReadTranscriptUnchecked(self) ==
    /\ pc[self] = "readTranscript"
    /\ \E exists \in BOOLEAN :
          /\ input' = [input EXCEPT ![self] = IF exists THEN "file" ELSE "nofile"]
          /\ Local(self, "getDirs", loc[self])
    /\ UNCHANGED <<root, now, files, log, pending, outstanding, genFailed,
                   pubArgs, pubExit, listed, unmatched, descriptor,
                   descriptorOf>>

\* 1. Read the transcript file.
ReadTranscript(self) ==
    /\ pc[self] = "readTranscript"
    /\ \E exists \in BOOLEAN :
          /\ input' = [input EXCEPT ![self] = IF exists THEN "file" ELSE "nofile"]
          /\ IF exists
             THEN Local(self, "getDirs", loc[self])
             ELSE Exit(self, "Transcript file not found")
    /\ UNCHANGED <<root, now, files, log, pending, outstanding, genFailed,
                   pubArgs, pubExit, listed, unmatched, descriptor,
                   descriptorOf>>

\* getProjectDirectories as it would be if it listed a default directory
\* when TENEX_PROJECTS_DIR cannot be read: the names do not depend on root.
GetProjectDirectoriesUncaught(self, E) ==
    /\ pc[self] = "getDirs"
    /\ \E entries \in E.dirs :
          LET directories == entries
          IN /\ Local(self, "checkDirs",
                      [loc[self] EXCEPT !.projectDirs = directories])
             /\ listed' = [listed EXCEPT ![self] =
                               IF directories = <<>> THEN "empty" ELSE "some"]
    /\ log' = [log EXCEPT ![self] = Append(@, "readdir")]
    /\ UNCHANGED <<root, now, files, pending, outstanding, genFailed,
                   pubArgs, pubExit, unmatched, descriptor, descriptorOf,
                   input>>

\* getProjectDirectories: the names readdir lists, [] when readdir throws.
GetProjectDirectories(self, E) ==
    /\ pc[self] = "getDirs"
    /\ \E entries \in E.dirs :
          LET directories == IF root = "ok" THEN entries ELSE <<>>
          IN /\ Local(self, "checkDirs",
                      [loc[self] EXCEPT !.projectDirs = directories])
             /\ listed' = [listed EXCEPT ![self] =
                               IF directories = <<>> THEN "empty" ELSE "some"]
    /\ log' = [log EXCEPT ![self] = Append(@, "readdir")]
    /\ UNCHANGED <<root, now, files, pending, outstanding, genFailed,
                   pubArgs, pubExit, unmatched, descriptor, descriptorOf,
                   input>>

\* CheckDirs as it would be without the test of projectDirs.length.
CheckDirsSkipped(self) ==
    /\ pc[self] = "checkDirs"
    /\ Local(self, "findProjectName", loc[self])
    /\ UNCHANGED <<root, now, files, log, pending, outstanding, genFailed,
                   pubArgs, pubExit, listed, unmatched, descriptor,
                   descriptorOf, input>>

\* 2. `if (projectDirs.length === 0) throw`.
CheckDirs(self) ==
    /\ pc[self] = "checkDirs"
    /\ IF Len(loc[self].projectDirs) = 0
       THEN Exit(self, "No project directories found")
       ELSE Local(self, "findProjectName", loc[self])
    /\ UNCHANGED <<root, now, files, log, pending, outstanding, genFailed,
                   pubArgs, pubExit, listed, unmatched, descriptor,
                   descriptorOf, input>>

\* 3. findProjectName up to its call of queryOllama.
FindProjectName(self) ==
    /\ pc[self] = "findProjectName"
    /\ Local(self, "qWrite", [loc[self] EXCEPT !.caller = "find"])
    /\ UNCHANGED <<root, now, files, log, pending, outstanding, genFailed,
                   pubArgs, pubExit, listed, unmatched, descriptor,
                   descriptorOf, input>>

(* ----------------------------- queryOllama ----------------------------- *)

\* The prompt file is named after the clock and written, before the try.
QWrite(self) ==
    /\ pc[self] = "qWrite"
    /\ \E t \in now..MaxTime :
          /\ now' = t
          /\ \/ /\ Local(self, "qSpawn",
                         [loc[self] EXCEPT !.tempPromptPath = PromptPath(t)])
                /\ files' = files \cup {PromptPath(t)}
                /\ pending' = [pending EXCEPT ![self] = @ \cup {PromptPath(t)}]
             \/ /\ Exit(self, "writeFile failed")
                /\ UNCHANGED <<files, pending>>
    /\ UNCHANGED <<root, log, outstanding, genFailed, pubArgs, pubExit,
                   listed, unmatched, descriptor, descriptorOf, input>>

\* spawn(['sh', '-c', `cat ... | ollama run ...`]): the call is made, or
\* spawn throws and the finally block runs.
QSpawn(self) ==
    /\ pc[self] = "qSpawn"
    /\ log' = [log EXCEPT ![self] = Append(@, loc[self].caller)]
    /\ \/ /\ Local(self, "qWait", loc[self])
          /\ outstanding' = [outstanding EXCEPT ![self] = loc[self].caller]
       \/ /\ Local(self, "qUnlink", [loc[self] EXCEPT !.thrown = TRUE])
          /\ UNCHANGED outstanding
    /\ UNCHANGED <<root, now, files, pending, genFailed, pubArgs, pubExit,
                   listed, unmatched, descriptor, descriptorOf, input>>

\* QWait as it would be if queryOllama returned without reading the
\* command's output to its end: the command is still running afterwards.
QWaitDetached(self, E) ==
    /\ pc[self] = "qWait"
    /\ \E stdout \in IF loc[self].caller = "find" THEN E.findOut ELSE E.taskOut,
          status \in {0, 1} :
          /\ Local(self, "qUnlink", [loc[self] EXCEPT !.response = Trim(stdout)])
          /\ genFailed' = [genFailed EXCEPT ![self] = @ \/ status # 0]
    /\ UNCHANGED <<root, now, files, log, pending, outstanding, pubArgs, pubExit, listed,
                   unmatched, descriptor, descriptorOf, input>>

\* The command's output is read to its end; what it wrote to stderr is
\* logged; its exit status is not read.  `return response.trim()`.
QWait(self, E) ==
    /\ pc[self] = "qWait"
    /\ \E stdout \in IF loc[self].caller = "find" THEN E.findOut ELSE E.taskOut,
          status \in {0, 1} :
          /\ Local(self, "qUnlink", [loc[self] EXCEPT !.response = Trim(stdout)])
          /\ genFailed' = [genFailed EXCEPT ![self] = @ \/ status # 0]
    /\ outstanding' = [outstanding EXCEPT ![self] = "none"]
    /\ UNCHANGED <<root, now, files, log, pending, pubArgs, pubExit, listed,
                   unmatched, descriptor, descriptorOf, input>>

\* QUnlink as it would be with the unlink after the try block instead of
\* in its finally: an exception of spawn skips it.
QUnlinkAfterSuccess(self) ==
    /\ pc[self] = "qUnlink"
    /\ IF loc[self].thrown
       THEN /\ Exit(self, "spawn sh failed")
            /\ UNCHANGED <<files, pending>>
       ELSE /\ \E unlinked \in BOOLEAN :
                  files' = IF unlinked
                           THEN files \ {loc[self].tempPromptPath}
                           ELSE files
            /\ pending' = [pending EXCEPT ![self] = @ \ {loc[self].tempPromptPath}]
            /\ Local(self, IF loc[self].caller = "find" THEN "match" ELSE "title",
                     [loc[self] EXCEPT !.tempPromptPath = NoPath])
    /\ UNCHANGED <<root, now, log, outstanding, genFailed, pubArgs, pubExit,
                   listed, unmatched, descriptor, descriptorOf, input>>

\* finally: fs.unlink(tempPromptPath), a failure of which is only warned
\* about; then the return, or the exception goes on to the catch of
\* processTenexTask.
QUnlink(self) ==
    /\ pc[self] = "qUnlink"
    /\ \E unlinked \in BOOLEAN :
          files' = IF unlinked THEN files \ {loc[self].tempPromptPath} ELSE files
    /\ pending' = [pending EXCEPT ![self] = @ \ {loc[self].tempPromptPath}]
    /\ IF loc[self].thrown
       THEN Exit(self, "spawn sh failed")
       ELSE Local(self, IF loc[self].caller = "find" THEN "match" ELSE "title",
                  [loc[self] EXCEPT !.tempPromptPath = NoPath])
    /\ UNCHANGED <<root, now, log, outstanding, genFailed, pubArgs, pubExit,
                   listed, unmatched, descriptor, descriptorOf, input>>


(* ------------------- processTenexTask, after the answer ---------------- *)

\* Match as it would be if findProjectName asked ollama again when no
\* directory matched the answer.
MatchRetry(self) ==
    /\ pc[self] = "match"
    /\ LET matchedDir == FindDir(loc[self].projectDirs, loc[self].response)
       IN IF Truthy(matchedDir)
          THEN Local(self, "readConfig",
                     [loc[self] EXCEPT !.projectDir = matchedDir,
                                       !.projectDirs = <<>>,
                                       !.caller = "none",
                                       !.response = Undefined])
          ELSE Local(self, "qWrite", loc[self])
    /\ unmatched' = [unmatched EXCEPT ![self] =
                        NoRule(loc[self].projectDirs, loc[self].response)]
    /\ UNCHANGED <<root, now, files, log, pending, outstanding, genFailed,
                   pubArgs, pubExit, listed, descriptor, descriptorOf, input>>

\* Match as it would be if findProjectName returned ollama's answer itself
\* once some directory matched it.
MatchAnswer(self) ==
    /\ pc[self] = "match"
    /\ LET matchedDir == FindDir(loc[self].projectDirs, loc[self].response)
       IN IF Truthy(matchedDir)
          THEN Local(self, "readConfig",
                     [loc[self] EXCEPT !.projectDir = loc[self].response,
                                       !.projectDirs = <<>>,
                                       !.caller = "none",
                                       !.response = Undefined])
          ELSE Exit(self, "Could not identify project directory")
    /\ unmatched' = [unmatched EXCEPT ![self] =
                        NoRule(loc[self].projectDirs, loc[self].response)]
    /\ UNCHANGED <<root, now, files, log, pending, outstanding, genFailed,
                   pubArgs, pubExit, listed, descriptor, descriptorOf, input>>

\* findProjectName after queryOllama: projectDirs.find, then
\* `if (matchedDir) return matchedDir; else throw`.
Match(self) ==
    /\ pc[self] = "match"
    /\ LET matchedDir == FindDir(loc[self].projectDirs, loc[self].response)
       IN IF Truthy(matchedDir)
          THEN Local(self, "readConfig",
                     [loc[self] EXCEPT !.projectDir = matchedDir,
                                       !.projectDirs = <<>>,
                                       !.caller = "none",
                                       !.response = Undefined])
          ELSE Exit(self, "Could not identify project directory")
    /\ unmatched' = [unmatched EXCEPT ![self] =
                        NoRule(loc[self].projectDirs, loc[self].response)]
    /\ UNCHANGED <<root, now, files, log, pending, outstanding, genFailed,
                   pubArgs, pubExit, listed, descriptor, descriptorOf, input>>

\* ReadConfig as it would be with `if (!nsec) throw`: eventId unchecked.
ReadConfigNsecOnly(self, E) ==
    /\ pc[self] = "readConfig"
    /\ log' = [log EXCEPT ![self] = Append(@, "descriptor")]
    /\ \E tenexConfig \in E.cfgs :
          /\ descriptor' = [descriptor EXCEPT ![self] = tenexConfig]
          /\ descriptorOf' = [descriptorOf EXCEPT ![self] = loc[self].projectDir]
          /\ IF tenexConfig.kind = "error"
             THEN Exit(self, "Could not read .tenex.json")
             ELSE IF tenexConfig.kind = "null"
             THEN Exit(self, "Cannot destructure null")
             ELSE IF ~Truthy(tenexConfig.nsec)
             THEN Exit(self, "Missing nsec or eventId in .tenex.json")
             ELSE Local(self, "readDocs",
                        [loc[self] EXCEPT !.nsec = tenexConfig.nsec,
                                          !.eventId = tenexConfig.eventId])
    /\ UNCHANGED <<root, now, files, pending, outstanding, genFailed,
                   pubArgs, pubExit, listed, unmatched, input>>

\* 4. readTenexConfig, `const { nsec, eventId } = tenexConfig` and
\* `if (!nsec || !eventId) throw`.
ReadConfig(self, E) ==
    /\ pc[self] = "readConfig"
    /\ log' = [log EXCEPT ![self] = Append(@, "descriptor")]
    /\ \E tenexConfig \in E.cfgs :
          /\ descriptor' = [descriptor EXCEPT ![self] = tenexConfig]
          /\ descriptorOf' = [descriptorOf EXCEPT ![self] = loc[self].projectDir]
          /\ IF tenexConfig.kind = "error"
             THEN Exit(self, "Could not read .tenex.json")
             ELSE IF tenexConfig.kind = "null"
             THEN Exit(self, "Cannot destructure null")
             ELSE IF ~Truthy(tenexConfig.nsec) \/ ~Truthy(tenexConfig.eventId)
             THEN Exit(self, "Missing nsec or eventId in .tenex.json")
             ELSE Local(self, "readDocs",
                        [loc[self] EXCEPT !.nsec = tenexConfig.nsec,
                                          !.eventId = tenexConfig.eventId])
    /\ UNCHANGED <<root, now, files, pending, outstanding, genFailed,
                   pubArgs, pubExit, listed, unmatched, input>>

\* 5. readFileIfExists of SPEC.md and of ARCHITECTURE.md: the content, ''
\* when the file cannot be read.
ReadDocs(self, E) ==
    /\ pc[self] = "readDocs"
    /\ \E spec \in E.docs, architecture \in E.docs :
          Local(self, "createDetailedTask",
                [loc[self] EXCEPT !.specContent = spec,
                                  !.architectureContent = architecture])
    /\ UNCHANGED <<root, now, files, log, pending, outstanding, genFailed,
                   pubArgs, pubExit, listed, unmatched, descriptor,
                   descriptorOf, input>>

\* ContextInfo as it would be if both blocks were pushed whatever the
\* documents hold.
ContextInfoBoth(specContent, architectureContent) ==
    << <<"SPEC", specContent>>, <<"ARCHITECTURE", architectureContent>> >>

\* The labeled blocks createDetailedTask pushes to contextInfo.
ContextInfo(specContent, architectureContent) ==
    (IF Truthy(specContent) THEN << <<"SPEC", specContent>> >> ELSE <<>>)
        \o (IF Truthy(architectureContent)
            THEN << <<"ARCHITECTURE", architectureContent>> >>
            ELSE <<>>)

\* 6. createDetailedTask up to its call of queryOllama.
CreateDetailedTask(self) ==
    /\ pc[self] = "createDetailedTask"
    /\ Local(self, "qWrite",
             [loc[self] EXCEPT
                 !.caller = "task",
                 !.contextInfo = ContextInfo(loc[self].specContent,
                                             loc[self].architectureContent)])
    /\ UNCHANGED <<root, now, files, log, pending, outstanding, genFailed,
                   pubArgs, pubExit, listed, unmatched, descriptor,
                   descriptorOf, input>>

\* createDetailedTask's `return response.trim()`, and 7. the first line
\* of the task as its title.
Title(self) ==
    /\ pc[self] = "title"
    /\ LET taskContent == Trim(loc[self].response)
       IN Local(self, "writeTask",
                [loc[self] EXCEPT !.taskContent = taskContent,
                                  !.taskTitle = FirstLine(taskContent),
                                  !.caller = "none",
                                  !.response = Undefined])
    /\ UNCHANGED <<root, now, files, log, pending, outstanding, genFailed,
                   pubArgs, pubExit, listed, unmatched, descriptor,
                   descriptorOf, input>>

\* 8. write(temp_task.md, taskContent).
WriteTask(self) ==
    /\ pc[self] = "writeTask"
    /\ \/ /\ Local(self, "publish", [loc[self] EXCEPT !.tempFilePath = TaskPath])
          /\ files' = files \cup {TaskPath}
          /\ pending' = [pending EXCEPT ![self] = @ \cup {TaskPath}]
       \/ /\ Exit(self, "write failed")
          /\ UNCHANGED <<files, pending>>
    /\ UNCHANGED <<root, now, log, outstanding, genFailed, pubArgs, pubExit,
                   listed, unmatched, descriptor, descriptorOf, input>>

\* PublishSpawn as it would be if the title line were cut off the content
\* handed to nak.
PublishSpawnRemainder(self) ==
    /\ pc[self] = "publish"
    /\ log' = [log EXCEPT ![self] = Append(@, "publish")]
    /\ pubArgs' = [pubArgs EXCEPT ![self] =
                      [nsec |-> loc[self].nsec,
                       eventId |-> loc[self].eventId,
                       taskTitle |-> loc[self].taskTitle,
                       taskContent |->
                           SubSeq(loc[self].taskContent,
                                  Len(loc[self].taskTitle) + 2,
                                  Len(loc[self].taskContent))]]
    /\ \/ /\ Local(self, "pubWait", loc[self])
          /\ outstanding' = [outstanding EXCEPT ![self] = "publish"]
       \/ /\ Exit(self, "spawn nak failed")
          /\ UNCHANGED outstanding
    /\ UNCHANGED <<root, now, files, pending, genFailed, pubExit, listed,
                   unmatched, descriptor, descriptorOf, input>>

\* 9. publishNostrEvent: spawn(['nak', 'event', ...]).  When spawn throws,
\* the catch of processTenexTask ends the process.
PublishSpawn(self) ==
    /\ pc[self] = "publish"
    /\ log' = [log EXCEPT ![self] = Append(@, "publish")]
    /\ pubArgs' = [pubArgs EXCEPT ![self] =
                      [nsec |-> loc[self].nsec,
                       eventId |-> loc[self].eventId,
                       taskTitle |-> loc[self].taskTitle,
                       taskContent |-> loc[self].taskContent]]
    /\ \/ /\ Local(self, "pubWait", loc[self])
          /\ outstanding' = [outstanding EXCEPT ![self] = "publish"]
       \/ /\ Exit(self, "spawn nak failed")
          /\ UNCHANGED outstanding
    /\ UNCHANGED <<root, now, files, pending, genFailed, pubExit, listed,
                   unmatched, descriptor, descriptorOf, input>>

\* PubWait as it would be if publishNostrEvent threw on a non-zero exit
\* code: the catch of processTenexTask ends the process.
PubWaitRaises(self) ==
    /\ pc[self] = "pubWait"
    /\ \E code \in {0, 1} :
          /\ pubExit' = [pubExit EXCEPT ![self] = {code}]
          /\ IF code # 0
             THEN Exit(self, "Error publishing Nostr event")
             ELSE Local(self, "cleanup", [loc[self] EXCEPT !.published = TRUE])
    /\ outstanding' = [outstanding EXCEPT ![self] = "none"]
    /\ UNCHANGED <<root, now, files, log, pending, genFailed, pubArgs,
                   listed, unmatched, descriptor, descriptorOf, input>>

\* `await proc.exited`, then false for a non-zero exit code, true for 0.
PubWait(self) ==
    /\ pc[self] = "pubWait"
    /\ \E code \in {0, 1} :
          /\ pubExit' = [pubExit EXCEPT ![self] = {code}]
          /\ Local(self, "cleanup", [loc[self] EXCEPT !.published = (code = 0)])
    /\ outstanding' = [outstanding EXCEPT ![self] = "none"]
    /\ UNCHANGED <<root, now, files, log, pending, genFailed, pubArgs,
                   listed, unmatched, descriptor, descriptorOf, input>>

\* 10. fs.unlink(tempFilePath), a failure of which is only warned about,
\* and 'Script finished successfully': the process ends with status 0.
Cleanup(self) ==
    /\ pc[self] = "cleanup"
    /\ \E unlinked \in BOOLEAN :
          files' = IF unlinked THEN files \ {loc[self].tempFilePath} ELSE files
    /\ pending' = [pending EXCEPT ![self] = @ \ {loc[self].tempFilePath}]
    /\ pc' = [pc EXCEPT ![self] = "done"]
    /\ exitCode' = [exitCode EXCEPT ![self] = {0}]
    /\ loc' = [loc EXCEPT ![self] = NoLocals]
    /\ UNCHANGED <<root, now, error, log, outstanding, genFailed, pubArgs,
                   pubExit, listed, unmatched, descriptor, descriptorOf,
                   input>>

(* --------------------------- specifications ---------------------------- *)

\* One run of the script.
Next ==
    \E self \in Procs :
        \/ Start(self)
        \/ RootCheckFail(self)
        \/ ReadTranscript(self)
        \/ GetProjectDirectories(self, Env)
        \/ CheckDirs(self)
        \/ FindProjectName(self)
        \/ QWrite(self)
        \/ QSpawn(self)
        \/ QWait(self, Env)
        \/ QUnlink(self)
        \/ Match(self)
        \/ ReadConfig(self, Env)
        \/ ReadDocs(self, Env)
        \/ CreateDetailedTask(self)
        \/ Title(self)
        \/ WriteTask(self)
        \/ PublishSpawn(self)
        \/ PubWait(self)
        \/ Cleanup(self)

Spec == Init /\ [][Next]_vars

\* Two runs of the script in one working directory.
NextConc ==
    \E self \in Procs :
        \/ Start(self)
        \/ RootCheckFail(self)
        \/ ReadTranscript(self)
        \/ GetProjectDirectories(self, ConcEnv)
        \/ CheckDirs(self)
        \/ FindProjectName(self)
        \/ QWrite(self)
        \/ QSpawn(self)
        \/ QWait(self, ConcEnv)
        \/ QUnlink(self)
        \/ Match(self)
        \/ ReadConfig(self, ConcEnv)
        \/ ReadDocs(self, ConcEnv)
        \/ CreateDetailedTask(self)
        \/ Title(self)
        \/ WriteTask(self)
        \/ PublishSpawn(self)
        \/ PubWait(self)
        \/ Cleanup(self)

SpecConc == InitConc /\ [][NextConc]_vars

\* findProjectName's matching on its own: every inventory and every
\* trimmed answer within the bounds, at the point where queryOllama has
\* returned.
InitResolver ==
    /\ root = "ok"
    /\ now = 0
    /\ files = {}
    /\ pc = [p \in Procs |-> IF p = 1 THEN "match" ELSE "off"]
    /\ exitCode = [p \in Procs |-> {}]
    /\ error = [p \in Procs |-> "none"]
    /\ \E dirs \in Inventories(ResDirs, ResLen) \ {<<>>},
          stdout \in FindOutputs(ResLen) :
          loc = [p \in Procs |->
                    IF p = 1
                    THEN [NoLocals EXCEPT !.projectDirs = dirs,
                                          !.caller = "find",
                                          !.response = Trim(stdout)]
                    ELSE NoLocals]
    /\ log = [p \in Procs |-> IF p = 1 THEN <<"readdir", "find">> ELSE <<>>]
    /\ pending = [p \in Procs |-> {}]
    /\ outstanding = [p \in Procs |-> "none"]
    /\ genFailed = [p \in Procs |-> FALSE]
    /\ pubArgs = [p \in Procs |-> NoArgs]
    /\ pubExit = [p \in Procs |-> {}]
    /\ listed = [p \in Procs |-> IF p = 1 THEN "some" ELSE "unread"]
    /\ unmatched = [p \in Procs |-> FALSE]
    /\ descriptor = [p \in Procs |-> NoConfig]
    /\ descriptorOf = [p \in Procs |-> Undefined]
    /\ input = [p \in Procs |-> IF p = 1 THEN "file" ELSE "unseen"]

NextResolver == \E self \in Procs : Match(self)

SpecResolver == InitResolver /\ [][NextResolver]_vars

(* ------------------------------- claims -------------------------------- *)

\* The entries of a sequence.
Range(seq) == {seq[i] : i \in 1..Len(seq)}

\* The process has ended.
Ended(self) == pc[self] \in {"done", "exited"}

\* C1: exact match precedence.  Whenever the answer equals an entry of the
\* inventory, findProjectName returns that entry, whatever other entries
\* the other rules accept and wherever they stand.
C1_ExactMatchPrecedence ==
    [][\A self \in Procs :
         (/\ pc[self] = "match"
          /\ pc'[self] # "match"
          /\ loc[self].response \in Range(loc[self].projectDirs))
         => (/\ pc'[self] = "readConfig"
             /\ loc'[self].projectDir = loc[self].response)]_vars

\* C2 as stated: when the descriptor lacks nsec or eventId, the run made no
\* text-generation call and no publication call at all.
C2_NoCallAtAll ==
    \A self \in Procs :
        (/\ descriptor[self].kind = "object"
         /\ ~Truthy(descriptor[self].nsec) \/ ~Truthy(descriptor[self].eventId))
        => Range(log[self]) \cap {"find", "task", "publish"} = {}

\* C2 as amended: when the descriptor lacks nsec or eventId, the run has
\* ended with status 1, and the project query that led to the descriptor
\* is the only external call it made: no task query, no publication.
C2_BadDescriptorAborts ==
    \A self \in Procs :
        (/\ descriptor[self].kind = "object"
         /\ ~Truthy(descriptor[self].nsec) \/ ~Truthy(descriptor[self].eventId))
        => (/\ pc[self] = "exited"
            /\ exitCode[self] = {1}
            /\ log[self] = <<"readdir", "find", "descriptor">>
            /\ pubArgs[self] = NoArgs)

C2_Witness ==
    /\ descriptor[1].kind = "object"
    /\ Truthy(descriptor[1].nsec)
    /\ descriptor[1].eventId = <<>>
    /\ error[1] = "Missing nsec or eventId in .tenex.json"

\* C3: a text-generation command that exits non-zero aborts the run: no
\* publication call is made and the run does not end with status 0.
C3_GenerationFailureAborts ==
    \A self \in Procs :
        genFailed[self] =>
            /\ "publish" \notin Range(log[self])
            /\ exitCode[self] # {0}

\* C4: when a run has ended, on whatever path, it has tried to remove every
\* temporary file it wrote.
C4_TempFilesRemovedOnEveryPath ==
    \A self \in Procs : Ended(self) => pending[self] = {}

\* C5: no temporary file path is in use by two runs at once.
C5_TempNamesUnique ==
    \A p, q \in Procs : p # q => pending[p] \cap pending[q] = {}

\* C6: case-insensitive fallback.  When the answer differs only in letter
\* case from the text before the first '-' of an entry, findProjectName
\* resolves to an entry with that leading text.
C6_CaseInsensitiveFallback ==
    [][\A self \in Procs :
         LET dirs == loc[self].projectDirs
             response == loc[self].response
             alike == {d \in Range(dirs) :
                          ToLowerCase(SplitFirst(d, "-")) = ToLowerCase(response)}
         IN (/\ pc[self] = "match"
             /\ pc'[self] # "match"
             /\ \E d \in alike : SplitFirst(d, "-") # response)
            => (/\ pc'[self] = "readConfig"
                /\ loc'[self].projectDir \in alike)]_vars

\* C7: after nak exited non-zero, publishNostrEvent has returned false
\* without raising and the run is at its cleanup step with temp_task.md
\* still to be removed, or the run has ended normally and has tried to
\* remove temp_task.md.
C7_PublishFailureStillCleansUp ==
    \A self \in Procs :
        pubExit[self] = {1} =>
            \/ /\ pc[self] = "cleanup"
               /\ loc[self].published = FALSE
               /\ error[self] = "none"
               /\ pending[self] = {TaskPath}
            \/ /\ pc[self] = "done"
               /\ error[self] = "none"
               /\ pending[self] = {}

C7_Witness ==
    /\ pubExit[1] = {1}
    /\ pc[1] = "done"
    /\ pending[1] = {}

\* C8: when getProjectDirectories returned no directory, the run makes no
\* text-generation call and no publication call, and the only way it goes
\* on is to end with status 1.
C8_EmptyInventoryAborts ==
    \A self \in Procs :
        listed[self] = "empty" =>
            /\ pc[self] \in {"checkDirs", "exited"}
            /\ pc[self] = "exited" => exitCode[self] = {1}
            /\ log[self] = <<"readdir">>
            /\ outstanding[self] = "none"
            /\ pubArgs[self] = NoArgs

C8_Witness ==
    /\ listed[1] = "empty"
    /\ root = "ok"
    /\ pc[1] = "exited"
    /\ error[1] = "No project directories found"

\* C9: when no directory satisfies any of the four rules for the answer,
\* the run has ended with status 1 having made the project query once and
\* nothing after it: no descriptor read, no task query, no publication.
C9_NoMatchAborts ==
    \A self \in Procs :
        unmatched[self] =>
            /\ pc[self] = "exited"
            /\ exitCode[self] = {1}
            /\ log[self] = <<"readdir", "find">>
            /\ descriptor[self] = NoConfig
            /\ pubArgs[self] = NoArgs

C9_Witness ==
    /\ unmatched[1]
    /\ pc[1] = "exited"
    /\ error[1] = "Could not identify project directory"

\* The prompt files a process wrote and has not yet tried to unlink.
PendingPrompts(self) == {f \in pending[self] : f[1] = "temp_prompt"}

\* C10: the prompt file exists from just before the command is spawned;
\* once queryOllama has returned or thrown, whether the command ran or
\* could not be started, the removal of the file has been tried.
C10_PromptFileScoped ==
    \A self \in Procs :
        /\ pc[self] \in {"qSpawn", "qWait"}
              => /\ PendingPrompts(self) = {loc[self].tempPromptPath}
                 /\ loc[self].tempPromptPath \in files
        /\ pc[self] = "qSpawn" => loc[self].caller \notin Range(log[self])
        /\ pc[self] \notin {"qSpawn", "qWait", "qUnlink"}
              => PendingPrompts(self) = {}

C10_Witness ==
    /\ pc[1] = "exited"
    /\ error[1] = "spawn sh failed"
    /\ "find" \in Range(log[1])
    /\ PendingPrompts(1) = {}


\* C11: when TENEX_PROJECTS_DIR does not exist or cannot be read, the run
\* makes no text-generation call and no publication call and does not end
\* with status 0, wherever the un-awaited check of the directory fires
\* between the steps of processTenexTask.
C11_BadRootAborts ==
    \A self \in Procs :
        root # "ok" =>
            /\ Range(log[self]) \cap {"find", "task", "publish"} = {}
            /\ outstanding[self] = "none"
            /\ pending[self] = {}
            /\ pc[self] \in {"off", "start", "readTranscript", "getDirs",
                             "checkDirs", "exited"}
            /\ pc[self] = "exited" => exitCode[self] = {1}

\* The un-awaited check ended the run after the inventory was read.
C11_Witness ==
    /\ root = "missing"
    /\ log[1] = <<"readdir">>
    /\ pc[1] = "exited"
    /\ error[1] = "Directory does not exist or is not accessible"


\* title is the text of T before its first line break.
IsFirstLineOf(title, T) ==
    /\ "\n" \notin Range(title)
    /\ StartsWith(T, title)
    /\ Len(title) = Len(T) \/ T[Len(title) + 1] = "\n"

\* C12: the title handed to nak is the first line of the generated task
\* text, and the content handed to nak is the whole of that text, title
\* line included.
C12_TitleIsFirstLine ==
    \A self \in Procs :
        pubArgs[self] # NoArgs =>
            /\ IsFirstLineOf(pubArgs[self].taskTitle, pubArgs[self].taskContent)
            /\ pc[self] \in {"pubWait", "cleanup"}
                  => pubArgs[self].taskContent = loc[self].taskContent

C12_Witness ==
    /\ pc[1] = "pubWait"
    /\ pubArgs[1].taskTitle = <<"t">>
    /\ pubArgs[1].taskContent = <<"t", "\n", "t">>


\* The labels of the blocks of a context section, in order.
Labels(contextInfo) == [i \in 1..Len(contextInfo) |-> contextInfo[i][1]]

\* C13: reading the documents never ends the run; the request for the task
\* carries a SPEC block exactly when SPEC.md gave non-empty text and an
\* ARCHITECTURE block exactly when ARCHITECTURE.md did, each holding the
\* document's text, SPEC before ARCHITECTURE, and no context section at all
\* when both are empty.
C13_ContextBlocks ==
    /\ [](\A self \in Procs :
             loc[self].caller = "task" =>
                 LET ci == loc[self].contextInfo
                     spec == loc[self].specContent
                     arch == loc[self].architectureContent
                 IN /\ ("SPEC" \in Range(Labels(ci))) <=> (spec # <<>>)
                    /\ ("ARCHITECTURE" \in Range(Labels(ci))) <=> (arch # <<>>)
                    /\ Labels(ci) \in {<<>>, <<"SPEC">>, <<"ARCHITECTURE">>,
                                       <<"SPEC", "ARCHITECTURE">>}
                    /\ \A i \in 1..Len(ci) :
                          ci[i][2] = IF ci[i][1] = "SPEC" THEN spec ELSE arch
                    /\ (spec = <<>> /\ arch = <<>>) => ci = <<>>)
    /\ [][\A self \in Procs :
             pc[self] = "readDocs" /\ pc'[self] # "readDocs"
                 => /\ pc'[self] = "createDetailedTask"
                    /\ loc'[self].specContent \in DocTexts
                    /\ loc'[self].architectureContent \in DocTexts]_vars

\* The task is being generated with SPEC.md empty or missing and
\* ARCHITECTURE.md present.
C13_Witness ==
    /\ pc[1] = "qWait"
    /\ loc[1].caller = "task"
    /\ loc[1].specContent = <<>>
    /\ loc[1].architectureContent = <<"t">>
    /\ loc[1].contextInfo = << <<"ARCHITECTURE", <<"t">> >> >>


\* C14: a run never has two external calls in progress: a call is started
\* only when none is in progress, and while one is in progress the run
\* does nothing but wait for it.
C14_OneCallAtATime ==
    \A self \in Procs :
        /\ outstanding[self] \in {"none", "find", "task", "publish"}
        /\ pc[self] \in {"qSpawn", "publish"} => outstanding[self] = "none"
        /\ outstanding[self] \in {"find", "task"}
              => pc[self] = "qWait" /\ loc[self].caller = outstanding[self]
        /\ outstanding[self] = "publish" => pc[self] = "pubWait"

\* nak is running after both calls of ollama have come and gone.
C14_Witness ==
    /\ outstanding[1] = "publish"
    /\ log[1] = <<"readdir", "find", "descriptor", "task", "publish">>


\* The stages of a run that reach outside the process, in the order of
\* processTenexTask.
Stages == <<"readdir", "find", "descriptor", "task", "publish">>

\* C15: the stages of a run happen in the order of processTenexTask, each at
\* most once: ollama is asked for the project only after a non-empty
\* inventory was listed, the descriptor is read only after that answer came
\* back and was resolved to a project, ollama is asked for the task only
\* after the descriptor gave an nsec and an eventId, and nak is called only
\* after the task came back.
C15_StagesInOrderOnce ==
    \A self \in Procs :
        /\ log[self] = SubSeq(Stages, 1, Len(log[self]))
        /\ "find" \in Range(log[self]) => listed[self] = "some"
        /\ "descriptor" \in Range(log[self])
              => /\ outstanding[self] # "find"
                 /\ ~unmatched[self]
                 /\ descriptorOf[self] # Undefined
        /\ "task" \in Range(log[self])
              => /\ descriptor[self].kind = "object"
                 /\ descriptor[self].nsec \notin {Undefined, <<>>}
                 /\ descriptor[self].eventId \notin {Undefined, <<>>}
        /\ "publish" \in Range(log[self])
              => /\ outstanding[self] # "task"
                 /\ pubArgs[self].taskContent # Undefined

\* A run that went through every stage and ended.
C15_Witness ==
    /\ pc[1] = "done"
    /\ log[1] = Stages


\* C16: a run started without a transcript path, or with the path of a file
\* that does not exist, ends with a non-zero status without listing the
\* project directories, asking ollama or calling nak.
C16_BadInputAborts ==
    \A self \in Procs :
        input[self] \in {"noarg", "nofile"} =>
            /\ pc[self] = "exited"
            /\ exitCode[self] = {1}
            /\ log[self] = <<>>
            /\ listed[self] = "unread"
            /\ outstanding[self] = "none"
            /\ pubArgs[self] = NoArgs

\* The transcript file was looked for and not found.
C16_Witness ==
    /\ input[1] = "nofile"
    /\ error[1] = "Transcript file not found"
    /\ exitCode[1] = {1}


\* C17: an empty answer never resolves to a project.  When queryOllama
\* returned the empty text, findProjectName throws the resolution error
\* instead of returning an entry of the inventory.
C17_EmptyAnswerUnresolved ==
    [][\A self \in Procs :
         (/\ pc[self] = "match"
          /\ pc'[self] # "match"
          /\ loc[self].projectDirs # <<>>
          /\ loc[self].response = <<>>)
         => (/\ pc'[self] = "exited"
             /\ error'[self] = "Could not identify project directory")]_vars

\* The orders in which the entries of an inventory can be listed.
Perms(dirs) ==
    {[i \in 1..Len(dirs) |-> dirs[f[i]]] :
        f \in {g \in [1..Len(dirs) -> 1..Len(dirs)] :
                  \A i, j \in 1..Len(dirs) : g[i] = g[j] => i = j}}

\* C18: the resolver's outcome does not depend on the order of the
\* inventory.  What findProjectName does with an answer and an inventory,
\* the entry it returns or its failure, is what it does with the same answer
\* and the same entries listed in any other order.
C18_OrderIndependent ==
    [][\A self \in Procs :
         (pc[self] = "match" /\ pc'[self] # "match")
         => \A other \in Perms(loc[self].projectDirs) :
               LET matchedDir == FindDir(other, loc[self].response)
               IN IF Truthy(matchedDir)
                  THEN /\ pc'[self] = "readConfig"
                       /\ loc'[self].projectDir = matchedDir
                  ELSE pc'[self] = "exited"]_vars


\* C19: the exit status reflects the outcome of the publication.  A run
\* that ended with status 0 had its call of nak end with status 0.
C19_ExitReflectsPublication ==
    \A self \in Procs :
        (pc[self] = "done" /\ exitCode[self] = {0}) => pubExit[self] = {0}


\* C20: whenever nak is called, the nsec and the eventId passed to it are
\* non-empty and are those read from .tenex.json of the directory that
\* findProjectName returned in this run, and that directory is an entry of
\* the inventory listed in this run.
C20_PublishesForResolvedProject ==
    /\ [](\A self \in Procs :
             pubArgs[self] # NoArgs =>
                 /\ pubArgs[self].nsec \notin {Undefined, <<>>}
                 /\ pubArgs[self].eventId \notin {Undefined, <<>>}
                 /\ descriptor[self].kind = "object"
                 /\ pubArgs[self].nsec = descriptor[self].nsec
                 /\ pubArgs[self].eventId = descriptor[self].eventId
                 /\ descriptorOf[self] # Undefined
                 /\ pc[self] \in {"pubWait", "cleanup"}
                       => descriptorOf[self] = loc[self].projectDir)
    /\ [][\A self \in Procs :
             /\ (pc[self] = "match" /\ pc'[self] = "readConfig")
                   => loc'[self].projectDir \in Range(loc[self].projectDirs)
             /\ (pc[self] \notin {"match", "off", "start"} /\ ~Ended(self)'
                 /\ pc'[self] # "match")
                   => loc'[self].projectDir = loc[self].projectDir
             /\ descriptorOf'[self] # descriptorOf[self]
                   => descriptorOf'[self] = loc[self].projectDir]_vars

\* nak was called with the nsec and the eventId of the resolved project.
C20_Witness ==
    /\ pc[1] = "pubWait"
    /\ pubArgs[1] # NoArgs
    /\ pubArgs[1].nsec = descriptor[1].nsec
    /\ descriptorOf[1] = loc[1].projectDir
    /\ descriptorOf[1] # Undefined

====
